---- MODULE Spec2Model ----
(***************************************************************************)
(* Model of src/matrix.rs: FloatMatrix (new, as_raw, get_transpose,        *)
(* naive_mult, get_row), the lane-cascade dot product                      *)
(* execute_mult_sum_simd with its lane_size_mult! macro, and the `*`       *)
(* operator (impl Mul for FloatMatrix).                                    *)
(*                                                                         *)
(* f64 values are integer valued throughout (all entries and partial sums  *)
(* stay far below 2^53, so every f64 operation is exact).  Matrix entries  *)
(* are plain integers.  The accumulator of the dot product can exceed the  *)
(* range of TLC's 32-bit integers (5031835050 in the 100 element test),    *)
(* so an accumulator is kept as two limbs <<hi, lo>> meaning               *)
(* hi * 100000 + lo with 0 <= lo < 100000.                                 *)
(***************************************************************************)
EXTENDS Integers, Sequences, FiniteSets, TLC

VARIABLES
    pc,       \* position inside execute_mult_sum_simd
    frame,    \* locals of execute_mult_sum_simd (+ a record of the loads made)
    a,        \* driver local: left operand built by FloatMatrix::new
    b,        \* driver local: right operand built by FloatMatrix::new
    p,        \* driver local: a.clone() * b.clone()
    q,        \* driver local: a.clone().naive_mult(b.clone())
    t0,       \* the matrix get_transpose was last called on
    t1,       \* t0.get_transpose()
    t2,       \* t1.get_transpose()
    avx2,     \* is_x86_feature_detected!("avx2") on this host
    call,     \* arguments of the last FloatMatrix::new call
    crash     \* "no", or the name of the operation that panicked

vars == <<pc, frame, a, b, p, q, t0, t1, t2, avx2, call, crash>>

matVars == <<a, b, p, q, t0, t1, t2, avx2, call, crash>>

-----------------------------------------------------------------------------
(* Bounds *)

MaxLen == 131

MaxDim == 4

-----------------------------------------------------------------------------
(* f64 arithmetic on integer values *)

F64Of(i) == <<i \div 100000, i % 100000>>

F64Add(x, y) ==
    LET lo == x[2] + y[2]
    IN  <<x[1] + y[1] + (lo \div 100000), lo % 100000>>

F64ToInt(x) == x[1] * 100000 + x[2]

Zero == F64Of(0)

-----------------------------------------------------------------------------
(* lane_size_mult! and execute_mult_sum_simd *)

\* (v1 * v2).reduce_sum() over the n lanes loaded from offset from; the
\* lanes are added pairwise, as a horizontal vector add does
RECURSIVE ReduceSum(_, _, _, _)
ReduceSum(v1, v2, from, n) ==
    IF n = 0 THEN Zero
    ELSE IF n = 1 THEN F64Of(v1[from + 1] * v2[from + 1])
    ELSE F64Add(ReduceSum(v1, v2, from, n \div 2),
                ReduceSum(v1, v2, from + (n \div 2), n - (n \div 2)))

NewFrame(v1, v2) ==
    [vector1 |-> v1, vector2 |-> v2,
     remaining_length |-> Len(v1), sum |-> Zero,
     loads |-> <<>>, pass |-> 0, pass_start |-> Len(v1),
     panicked |-> Len(v1) # Len(v2)]

\* as LaneSizeMult, without the `if $rem >= $lane_size` test
LaneSizeMultUnguarded(f, lane_size) ==
    LET current_len == Len(f.vector1) - f.remaining_length
    IN  IF \/ current_len + lane_size > Len(f.vector1)
           \/ current_len + lane_size > Len(f.vector2)
        THEN [f EXCEPT !.panicked = TRUE,
                       !.remaining_length = @ - lane_size]
        ELSE [f EXCEPT
                !.sum = F64Add(@, ReduceSum(f.vector1, f.vector2,
                                            current_len, lane_size)),
                !.remaining_length = @ - lane_size,
                !.loads = Append(@, <<current_len, lane_size, f.pass>>)]

LaneSizeMult(f, lane_size) ==
    IF f.remaining_length >= lane_size
    THEN LET current_len == Len(f.vector1) - f.remaining_length
         IN  IF \/ current_len + lane_size > Len(f.vector1)
                \/ current_len + lane_size > Len(f.vector2)
             THEN [f EXCEPT !.panicked = TRUE]
             ELSE [f EXCEPT
                     !.sum = F64Add(@, ReduceSum(f.vector1, f.vector2,
                                                 current_len, lane_size)),
                     !.remaining_length = @ - lane_size,
                     !.loads = Append(@, <<current_len, lane_size, f.pass>>)]
    ELSE f

\* as SingletonStep, reading first() in place of last()
SingletonStepFirst(f) ==
    IF f.remaining_length = 1
    THEN [f EXCEPT
            !.sum = F64Add(@, F64Of(f.vector1[1] * f.vector2[1])),
            !.remaining_length = 0,
            !.loads = Append(@, <<0, 1, f.pass>>)]
    ELSE f

SingletonStep(f) ==
    IF f.remaining_length = 1
    THEN [f EXCEPT
            !.sum = F64Add(@, F64Of(f.vector1[Len(f.vector1)]
                                    * f.vector2[Len(f.vector2)])),
            !.remaining_length = 0,
            !.loads = Append(@, <<Len(f.vector1) - 1, 1, f.pass>>)]
    ELSE f

Lanes == <<64, 32, 16, 8, 4, 2>>

\* entering the body of `while remaining_length > 0`
EnterPass(f) == [f EXCEPT !.pass = @ + 1, !.pass_start = f.remaining_length]

RECURSIVE LaneCascade(_, _)
LaneCascade(f, i) ==
    IF i > Len(Lanes) \/ f.panicked THEN f
    ELSE LaneCascade(LaneSizeMult(f, Lanes[i]), i + 1)

WhileBody(f) ==
    LET g == LaneCascade(EnterPass(f), 1)
    IN  IF g.panicked THEN g ELSE SingletonStep(g)

RECURSIVE WhileLoop(_)
WhileLoop(f) ==
    IF f.panicked \/ ~(f.remaining_length > 0) THEN f
    ELSE WhileLoop(WhileBody(f))

ExecuteMultSumSimd(v1, v2) == WhileLoop(NewFrame(v1, v2))

-----------------------------------------------------------------------------
(* execute_mult_sum_simd, one statement at a time *)

Affine(start, step, n) == [k \in 1..n |-> start + step * (k - 1)]

\* <<start1, step1, start2, step2>>: the two unit tests and main.rs's fill
DotPatterns == {<<0, 1, 10, 10>>, <<9900, 1, 99, 100>>, <<5, 0, 15, 0>>}

LanePc == [i \in 1..6 |-> <<"lane64", "lane32", "lane16",
                            "lane8", "lane4", "lane2">>[i]]

IdleFrame == NewFrame(<<>>, <<>>)

Enter ==
    /\ pc = "idle"
    /\ \E n \in 0..MaxLen, d \in {0, 1}, pat \in DotPatterns :
          frame' = NewFrame(Affine(pat[1], pat[2], n),
                            Affine(pat[3], pat[4], n + d))
    /\ pc' = IF frame'.panicked THEN "panic" ELSE "while"
    /\ UNCHANGED matVars

WhileTest ==
    /\ pc = "while"
    /\ IF frame.remaining_length > 0
       THEN /\ frame' = EnterPass(frame)
            /\ pc' = LanePc[1]
       ELSE /\ frame' = frame
            /\ pc' = "done"
    /\ UNCHANGED matVars

LaneStep ==
    /\ \E i \in 1..Len(Lanes) :
          /\ pc = LanePc[i]
          /\ frame' = LaneSizeMult(frame, Lanes[i])
          /\ pc' = IF frame'.panicked THEN "panic"
                   ELSE IF i < Len(Lanes) THEN LanePc[i + 1] ELSE "single"
    /\ UNCHANGED matVars

SingleStep ==
    /\ pc = "single"
    /\ frame' = SingletonStep(frame)
    /\ pc' = "while"
    /\ UNCHANGED matVars

DotNext == Enter \/ WhileTest \/ LaneStep \/ SingleStep

-----------------------------------------------------------------------------
(* FloatMatrix.  A driver local holds <<>> (nothing yet) or <<m>>. *)

Matrix(data, width, height) == [data |-> data, dim |-> <<width, height>>]

Ok(m) == [ok |-> TRUE, m |-> m]

Panic == [ok |-> FALSE, m |-> Matrix(<<>>, 0, 0)]

\* as New, without the assert_eq!
NewUnchecked(data, width, height) == Ok(Matrix(data, width, height))

New(data, width, height) ==
    IF Len(data) = width * height
    THEN Ok(Matrix(data, width, height))
    ELSE Panic

AsRaw(m) == m.data

\* the slice n*dim.0 .. (n+1)*dim.0 lies inside data
GetRowInRange(m, n) == (n + 1) * m.dim[1] <= Len(m.data)

GetRow(m, n) == SubSeq(m.data, n * m.dim[1] + 1, (n + 1) * m.dim[1])

\* as GetTranspose, dividing by the width in place of the height
GetTransposeByWidth(m) ==
    LET len == Len(m.data)
        src(n) == (n \div m.dim[1]) + ((n % m.dim[1]) * m.dim[2])
    IN  IF len > 0 /\ m.dim[1] = 0 THEN Panic
        ELSE IF \E n \in 0..(len - 1) : src(n) >= len THEN Panic
        ELSE Ok(Matrix([k \in 1..len |-> m.data[src(k - 1) + 1]],
                       m.dim[2], m.dim[1]))

GetTranspose(m) ==
    LET len == Len(m.data)
        src(n) == (n \div m.dim[2]) + ((n % m.dim[2]) * m.dim[1])
    IN  IF len > 0 /\ m.dim[2] = 0 THEN Panic
        ELSE IF \E n \in 0..(len - 1) : src(n) >= len THEN Panic
        ELSE Ok(Matrix([k \in 1..len |-> m.data[src(k - 1) + 1]],
                       m.dim[2], m.dim[1]))

\* new_data receives one push per (row_i, col_i, i), in loop order
NaiveMult(self, rhs) ==
    LET lw == self.dim[1]
        lh == self.dim[2]
        rw == rhs.dim[1]
        count == lh * rw * lw
        row_i(n) == n \div (rw * lw)
        col_i(n) == (n \div lw) % rw
        i(n) == n % lw
    IN  IF \/ \E r \in 0..(lh - 1) : ~GetRowInRange(self, r)
           \/ /\ lh > 0
              /\ rw > 0
              /\ \E k \in 0..(lw - 1) : ~GetRowInRange(rhs, k)
        THEN Panic
        ELSE Ok(Matrix([k \in 1..count |->
                          GetRow(self, row_i(k - 1))[i(k - 1) + 1]
                          * GetRow(rhs, i(k - 1))[col_i(k - 1) + 1]],
                       rw, lh))

SimdCols(rhs) ==
    [col \in 1..rhs.dim[1] |->
        [col_val \in 1..rhs.dim[2] |-> GetRow(rhs, col_val - 1)[col]]]

\* the part of mul after the two early returns
MulVectorized(self, rhs) ==
    LET lh == self.dim[2]
        rw == rhs.dim[1]
        simd_cols == SimdCols(rhs)
        cell(n) == ExecuteMultSumSimd(GetRow(self, n \div rw),
                                      simd_cols[(n % rw) + 1])
    IN  IF self.dim[1] # rhs.dim[2] THEN Panic
        ELSE IF \/ \E r \in 0..(rhs.dim[2] - 1) : ~GetRowInRange(rhs, r)
                \/ \E r \in 0..(lh - 1) : ~GetRowInRange(self, r)
                \/ \E n \in 0..(lh * rw - 1) : cell(n).panicked
        THEN Panic
        ELSE Ok(Matrix([k \in 1..(lh * rw) |-> F64ToInt(cell(k - 1).sum)],
                       rw, lh))

\* as Mul, without the zero-dimension early return
MulNoShortCircuit(self, rhs, hasAvx2) ==
    IF ~hasAvx2 THEN NaiveMult(self, rhs)
    ELSE MulVectorized(self, rhs)

Mul(self, rhs, hasAvx2) ==
    IF \/ self.dim[1] = 0 \/ self.dim[2] = 0
       \/ rhs.dim[1] = 0 \/ rhs.dim[2] = 0
    THEN New(<<>>, 0, 0)
    ELSE IF ~hasAvx2 THEN NaiveMult(self, rhs)
    ELSE MulVectorized(self, rhs)

-----------------------------------------------------------------------------
(* The driver: builds two operands, multiplies them both ways, transposes *)

\* fills used by the tests (1.0, 2.0, ...) and, from 0, medium_square_matrix
Starts == {0, 1}

Ramp(start, n) == Affine(start, 1, n)

NoCall == [op |-> "none"]

NewOp ==
    /\ crash = "no"
    /\ b = <<>>
    /\ \E start \in Starts, n \in 0..(MaxDim * MaxDim + 1),
          width \in 0..MaxDim, height \in 0..MaxDim :
          LET r == New(Ramp(start, n), width, height)
              target == IF a = <<>> THEN "a" ELSE "b"
          IN  /\ call' = [op |-> "new", target |-> target,
                          data |-> Ramp(start, n),
                          width |-> width, height |-> height]
              /\ crash' = IF r.ok THEN "no" ELSE "new"
              /\ a' = IF r.ok /\ target = "a" THEN <<r.m>> ELSE a
              /\ b' = IF r.ok /\ target = "b" THEN <<r.m>> ELSE b
    /\ UNCHANGED <<p, q, t0, t1, t2, avx2, pc, frame>>

MulOp ==
    /\ crash = "no"
    /\ a # <<>> /\ b # <<>> /\ p = <<>>
    /\ LET r == Mul(a[1], b[1], avx2)
       IN  /\ crash' = IF r.ok THEN "no" ELSE "mul"
           /\ p' = IF r.ok THEN <<r.m>> ELSE p
    /\ UNCHANGED <<a, b, q, t0, t1, t2, avx2, call, pc, frame>>

NaiveMultOp ==
    /\ crash = "no"
    /\ a # <<>> /\ b # <<>> /\ q = <<>>
    /\ LET r == NaiveMult(a[1], b[1])
       IN  /\ crash' = IF r.ok THEN "no" ELSE "naive_mult"
           /\ q' = IF r.ok THEN <<r.m>> ELSE q
    /\ UNCHANGED <<a, b, p, t0, t1, t2, avx2, call, pc, frame>>

GetTransposeOp ==
    /\ crash = "no"
    /\ b # <<>>
    /\ \E src \in {a, b, p, q} :
          /\ src # <<>>
          /\ LET r == GetTranspose(src[1])
             IN  /\ crash' = IF r.ok THEN "no" ELSE "get_transpose"
                 /\ t0' = src
                 /\ t1' = IF r.ok THEN <<r.m>> ELSE <<>>
                 /\ t2' = <<>>
    /\ UNCHANGED <<a, b, p, q, avx2, call, pc, frame>>

GetTransposeAgainOp ==
    /\ crash = "no"
    /\ t1 # <<>> /\ t2 = <<>>
    /\ LET r == GetTranspose(t1[1])
       IN  /\ crash' = IF r.ok THEN "no" ELSE "get_transpose"
           /\ t2' = IF r.ok THEN <<r.m>> ELSE <<>>
    /\ UNCHANGED <<a, b, p, q, t0, t1, avx2, call, pc, frame>>

Init ==
    /\ pc = "idle"
    /\ frame = IdleFrame
    /\ a = <<>> /\ b = <<>> /\ p = <<>> /\ q = <<>>
    /\ t0 = <<>> /\ t1 = <<>> /\ t2 = <<>>
    /\ avx2 \in BOOLEAN
    /\ call = NoCall
    /\ crash = "no"

Next == NewOp \/ MulOp \/ NaiveMultOp \/ GetTransposeOp \/ GetTransposeAgainOp

Spec == Init /\ [][Next]_vars

DotInit ==
    /\ pc = "idle"
    /\ frame = IdleFrame
    /\ a = <<>> /\ b = <<>> /\ p = <<>> /\ q = <<>>
    /\ t0 = <<>> /\ t1 = <<>> /\ t2 = <<>>
    /\ avx2 = TRUE
    /\ call = NoCall
    /\ crash = "no"

DotSpec == DotInit /\ [][DotNext]_vars

-----------------------------------------------------------------------------
(* Properties of execute_mult_sum_simd, checked under DotSpec *)

\* the exact sum of v1[k] * v2[k] over the indices lo..hi
RECURSIVE DotRef(_, _, _, _)
DotRef(v1, v2, lo, hi) ==
    IF lo > hi THEN Zero
    ELSE IF lo = hi THEN F64Of(v1[lo] * v2[lo])
    ELSE LET mid == (lo + hi) \div 2
         IN  F64Add(DotRef(v1, v2, lo, mid), DotRef(v1, v2, mid + 1, hi))

\* how many of the recorded loads (vector or scalar) read index k (1-based)
TimesMultiplied(k) ==
    Cardinality({i \in DOMAIN frame.loads :
                    /\ frame.loads[i][1] < k
                    /\ k <= frame.loads[i][1] + frame.loads[i][2]})

\* C6: when execute_mult_sum_simd returns on two equal-length integer-valued
\* sequences, the returned sum is exactly the sum of v1[k]*v2[k] over every
\* index, each index having been multiplied exactly once; in particular the
\* 6 element test yields 700 and the 100 element test yields 5031835050.
C6_DotProductExact ==
    pc = "done" =>
        /\ frame.sum = DotRef(frame.vector1, frame.vector2,
                              1, Len(frame.vector1))
        /\ \A k \in 1..Len(frame.vector1) : TimesMultiplied(k) = 1
        /\ (/\ frame.vector1 = <<0, 1, 2, 3, 4, 5>>
            /\ frame.vector2 = <<10, 20, 30, 40, 50, 60>>)
              => F64ToInt(frame.sum) = 700
        /\ (/\ frame.vector1 = Affine(9900, 1, 100)
            /\ frame.vector2 = Affine(99, 100, 100))
              => frame.sum = <<50318, 35050>>

\* the 100 element test has returned
C6_Witness ==
    /\ pc = "done"
    /\ frame.vector1 = Affine(9900, 1, 100)
    /\ frame.vector2 = Affine(99, 100, 100)
    /\ frame.sum = <<50318, 35050>>

\* C10: the cascade terminates for every length: the remaining length stays
\* in 0..len, every load lies inside the sequences at offset len - remaining,
\* widths are tried in descending order, each pass of the while loop strictly
\* decreases the remaining length, the scalar step happens at most once, when
\* exactly 1 element remains and on the last element, and the loop is left
\* with remaining length exactly 0.
C10_CascadeTerminates ==
    LET f == frame
        len == Len(f.vector1)
        loads == f.loads
    IN  Len(f.vector1) = Len(f.vector2) =>
          /\ pc # "panic"
          /\ ~f.panicked
          /\ f.remaining_length \in 0..len
          \* every load is [offset, offset + L) with offset = len - remaining
          /\ \A i \in DOMAIN loads :
                /\ loads[i][1] >= 0
                /\ loads[i][1] + loads[i][2] <= len
                /\ loads[i][1] = IF i = 1 THEN 0
                                 ELSE loads[i - 1][1] + loads[i - 1][2]
                /\ loads[i][2] \in {64, 32, 16, 8, 4, 2, 1}
          /\ len - f.remaining_length =
                IF loads = <<>> THEN 0
                ELSE loads[Len(loads)][1] + loads[Len(loads)][2]
          \* within one pass the widths are tried in descending order
          /\ \A i, j \in DOMAIN loads :
                (i < j /\ loads[i][3] = loads[j][3])
                   => loads[i][2] > loads[j][2]
          \* the scalar step: at most once, when 1 remains, on the last element
          /\ Cardinality({i \in DOMAIN loads : loads[i][2] = 1}) <= 1
          /\ \A i \in DOMAIN loads :
                loads[i][2] = 1 => /\ i = Len(loads)
                                   /\ loads[i][1] = len - 1
                                   /\ f.remaining_length = 0
          \* a completed pass has strictly decreased the remaining length
          /\ (pc = "while" /\ f.pass > 0)
                => f.remaining_length < f.pass_start
          /\ pc = "done" => f.remaining_length = 0

\* a 131 element call has returned: two passes, 64 used once, scalar step last
C10_Witness ==
    /\ pc = "done"
    /\ Len(frame.vector1) = 131
    /\ frame.pass = 2
    /\ frame.loads[Len(frame.loads)] = <<130, 1, 2>>

-----------------------------------------------------------------------------
(* Properties of FloatMatrix, checked under Spec *)

NonDegenerate(l, r) ==
    l.dim[1] >= 1 /\ l.dim[2] >= 1 /\ r.dim[1] >= 1 /\ r.dim[2] >= 1

\* the standard matrix product cell: sum over i of l[row, i] * r[i, col]
RECURSIVE StdCell(_, _, _, _, _)
StdCell(l, r, row, col, n) ==
    IF n = 0 THEN 0
    ELSE StdCell(l, r, row, col, n - 1)
         + l.data[row * l.dim[1] + (n - 1) + 1]
           * r.data[(n - 1) * r.dim[1] + col + 1]

\* C1: with AVX2, for compatible non-degenerate operands, `*` and naive_mult
\* return equal matrices (same dimensions, same flat values).
C1_VectorizedEqualsNaive ==
    (/\ avx2
     /\ p # <<>>
     /\ q # <<>>
     /\ NonDegenerate(a[1], b[1])
     /\ a[1].dim[1] = b[1].dim[2])
        => p[1] = q[1]

\* C2: a multiply of non-degenerate operands with lhs width # rhs height
\* never returns a matrix, with or without AVX2.
C2_ShapeMismatchAborts ==
    (/\ b # <<>>
     /\ NonDegenerate(a[1], b[1])
     /\ a[1].dim[1] # b[1].dim[2])
        => p = <<>>

\* C3: for compatible non-degenerate operands the value of lhs * rhs at flat
\* index r*rhs.width + c is the standard matrix product cell; the 3x3
\* self-product of 1..9 and the (4,2) by (3,4) product give the test vectors.
C3_ProductCells ==
    (/\ p # <<>>
     /\ NonDegenerate(a[1], b[1])
     /\ a[1].dim[1] = b[1].dim[2])
        => /\ \A r \in 0..(a[1].dim[2] - 1), c \in 0..(b[1].dim[1] - 1) :
                 /\ r * b[1].dim[1] + c + 1 \in DOMAIN p[1].data
                 /\ p[1].data[r * b[1].dim[1] + c + 1]
                       = StdCell(a[1], b[1], r, c, a[1].dim[1])
           /\ (a[1] = Matrix(Ramp(1, 9), 3, 3) /\ b[1] = a[1])
                 => AsRaw(p[1]) = <<30, 36, 42, 66, 81, 96, 102, 126, 150>>
           /\ (/\ a[1] = Matrix(Ramp(1, 8), 4, 2)
               /\ b[1] = Matrix(Ramp(1, 12), 3, 4))
                 => AsRaw(p[1]) = <<70, 80, 90, 158, 184, 210>>

\* C4: every non-degenerate multiply that returns, on either path, returns a
\* matrix of dimensions (rhs.width, lhs.height) holding exactly
\* rhs.width * lhs.height values.
C4_ResultShape ==
    (p # <<>> /\ NonDegenerate(a[1], b[1]))
        => /\ p[1].dim = <<b[1].dim[1], a[1].dim[2]>>
           /\ Len(p[1].data) = b[1].dim[1] * a[1].dim[2]
           /\ Len(p[1].data) = p[1].dim[1] * p[1].dim[2]

\* C5: when any of the four dimensions is 0, `*` does not abort and returns
\* the empty 0x0 matrix, whatever the shapes and whatever the CPU supports.
C5_DegenerateGivesEmpty ==
    (b # <<>> /\ ~NonDegenerate(a[1], b[1]))
        => /\ crash # "mul"
           /\ p # <<>> => p[1] = Matrix(<<>>, 0, 0)

\* a degenerate, shape-incompatible multiply has returned
C5_Witness ==
    /\ p # <<>>
    /\ ~NonDegenerate(a[1], b[1])
    /\ a[1].dim[1] # b[1].dim[2]
    /\ a[1].dim[2] > 0 /\ b[1].dim[1] > 0
    /\ p[1] = Matrix(<<>>, 0, 0)

\* C7: get_transpose swaps the dimensions, and transposing twice gives back
\* the matrix it started from, dimensions and flat values.
C7_TransposeInvolutive ==
    /\ t1 # <<>> => t1[1].dim = <<t0[1].dim[2], t0[1].dim[1]>>
    /\ t2 # <<>> => t2[1] = t0[1]

\* C8: get_transpose puts every element (row i, column j) that M holds at
\* (row j, column i) of the output: output[j*h + i] = M[i*w + j], and
\* output[n] = M[(n / h) + (n % h) * w] for every flat index n; the output
\* has the dimensions swapped and as many values as M.
C8_TransposePlacement ==
    t1 # <<>> =>
        LET m == t0[1]
            out == t1[1]
            w == m.dim[1]
            h == m.dim[2]
        IN  /\ out.dim = <<h, w>>
            /\ Len(out.data) = Len(m.data)
            /\ \A i \in 0..(h - 1), j \in 0..(w - 1) :
                  (i * w + j + 1) \in DOMAIN m.data
                     => out.data[j * h + i + 1] = m.data[i * w + j + 1]
            /\ \A n \in 0..(Len(out.data) - 1) :
                  out.data[n + 1] = m.data[(n \div h) + ((n % h) * w) + 1]

\* a 3 wide, 2 high matrix has been transposed
C8_Witness ==
    /\ t1 # <<>>
    /\ t0[1] = Matrix(Ramp(1, 6), 3, 2)
    /\ t1[1] = Matrix(<<1, 4, 2, 5, 3, 6>>, 2, 3)

====
